---------------------------- MODULE Spec2Model ----------------------------
(***************************************************************************)
(* A model of SimpleInvoiceProcessor (src/multi_tool_agent/agent.py).      *)
(*                                                                         *)
(* Text is modelled as a sequence of one-character strings, so that the    *)
(* fence stripping, JSON parsing, JSON serialisation, CSV emission, file   *)
(* name stems and pattern matching are computed character by character.    *)
(* A Python dict is a sequence of entries in insertion order.              *)
(***************************************************************************)
EXTENDS Integers, Sequences, FiniteSets, TLC

VARIABLES
    call,        \* the frame of one process_documents call: position and locals
    net,         \* the requests the external model service has received, in order
    loadIn,      \* argument of a direct load_master_data call
    loadOut,     \* its return value
    lookupIn,    \* arguments of a direct lookup_master_data call
    lookupOut,   \* its return value
    self,        \* the processor's fields, shared by every call made on it
    threads,     \* per concurrent call: position, arguments, service replies, result
    frames,      \* the activation records holding the locals of the concurrent calls
    fs           \* the files under the temporary directories, by path

vars == <<call, net, loadIn, loadOut, lookupIn, lookupOut, self, threads, frames, fs>>

(***************************************************************************)
(* Bounds of the model.                                                    *)
(***************************************************************************)
MaxRecords == 2      \* most elements of a JSON list in a completion
MaxWorkbooks == 2    \* most workbooks in one master data mapping
MaxPatLen == 2       \* most characters of a lookup value

(***************************************************************************)
(* Optional values: None is the empty tuple, Some(x) a one-element tuple.  *)
(***************************************************************************)
None == <<>>
Some(x) == <<x>>

(***************************************************************************)
(* Strings.                                                                *)
(***************************************************************************)
PyWhitespace == {" ", "\n", "\t"}

Range(s) == {s[i] : i \in DOMAIN s}

StartsWith(s, p) == Len(s) >= Len(p) /\ SubSeq(s, 1, Len(p)) = p

EndsWith(s, p) == Len(s) >= Len(p) /\ SubSeq(s, Len(s) - Len(p) + 1, Len(s)) = p

\* s[n:]
DropFirst(s, n) == SubSeq(s, n + 1, Len(s))

\* s[:-n]
DropLast(s, n) == SubSeq(s, 1, Len(s) - n)

\* the first position at or after i that holds no character of ws
SkipSet(s, i, ws) ==
    CHOOSE j \in i..(Len(s) + 1) :
        /\ \A k \in i..(j - 1) : s[k] \in ws
        /\ j = Len(s) + 1 \/ s[j] \notin ws

\* str.strip()
Strip(s) ==
    LET a == SkipSet(s, 1, PyWhitespace)
        b == IF a > Len(s) THEN a - 1
             ELSE CHOOSE j \in a..Len(s) :
                    /\ s[j] \notin PyWhitespace
                    /\ \A k \in (j + 1)..Len(s) : s[k] \in PyWhitespace
    IN SubSeq(s, a, b)

RECURSIVE Flatten(_)
Flatten(ss) == IF ss = <<>> THEN <<>> ELSE Head(ss) \o Flatten(Tail(ss))

RECURSIVE Join(_, _)
Join(ss, sep) ==
    IF ss = <<>> THEN <<>>
    ELSE IF Len(ss) = 1 THEN ss[1]
    ELSE ss[1] \o sep \o Join(Tail(ss), sep)

\* s.split(sep) for a one-character separator
RECURSIVE Split(_, _)
Split(s, sep) ==
    IF \A i \in DOMAIN s : s[i] # sep THEN <<s>>
    ELSE LET j == CHOOSE i \in DOMAIN s : s[i] = sep /\ \A k \in 1..(i - 1) : s[k] # sep
         IN <<SubSeq(s, 1, j - 1)>> \o Split(SubSeq(s, j + 1, Len(s)), sep)

Digit == <<"0", "1", "2", "3", "4", "5", "6", "7", "8", "9">>
DigitChars == Range(Digit)
DigitVal(c) == (CHOOSE i \in DOMAIN Digit : Digit[i] = c) - 1

RECURSIVE DigitsToNat(_)
DigitsToNat(s) ==
    IF s = <<>> THEN 0 ELSE 10 * DigitsToNat(DropLast(s, 1)) + DigitVal(s[Len(s)])

\* str(n) for a natural number n
RECURSIVE NatToDigits(_)
NatToDigits(n) ==
    IF n < 10 THEN <<Digit[n + 1]>>
    ELSE NatToDigits(n \div 10) \o <<Digit[(n % 10) + 1]>>

(***************************************************************************)
(* JSON values.  Every value is a record with the same fields: its type t, *)
(* the number n, the string s, and the elements e (the elements of a list, *)
(* or the members [k, v] of an object in insertion order).                 *)
(***************************************************************************)
JNum(n) == [t |-> "num", n |-> n, s |-> <<>>, e |-> <<>>]
JStr(s) == [t |-> "str", n |-> 0, s |-> s, e |-> <<>>]
JList(e) == [t |-> "list", n |-> 0, s |-> <<>>, e |-> e]
JObj(m) == [t |-> "obj", n |-> 0, s |-> <<>>, e |-> m]

\* d[k] = v on a Python dict: a new key goes last, an old key keeps its place
DictSet(d, k, v) ==
    IF \E i \in DOMAIN d : d[i].k = k
    THEN [i \in DOMAIN d |-> IF d[i].k = k THEN [k |-> k, v |-> v] ELSE d[i]]
    ELSE Append(d, [k |-> k, v |-> v])

DictKeys(d) == [i \in DOMAIN d |-> d[i].k]

DictHas(d, k) == \E i \in DOMAIN d : d[i].k = k

DictGet(d, k) == d[CHOOSE i \in DOMAIN d : d[i].k = k].v

(***************************************************************************)
(* json.loads: a recursive descent over the characters.  A parse returns   *)
(* [ok, v, i]: whether it succeeded, the value, and the next position.     *)
(***************************************************************************)
JsonWs == {" ", "\n", "\t"}

Quote == "\""

\* the grave accent U+0060, which a TLA+ string cannot hold
Backtick == "grave"

ParseFail == [ok |-> FALSE, v |-> JNum(0), i |-> 0]

CharAt(s, i) == IF i \in DOMAIN s THEN s[i] ELSE ""

ParseNumber(s, i) ==
    LET j == SkipSet(s, i, DigitChars)
    IN IF s[i] = "0" /\ j > i + 1 THEN [ok |-> TRUE, v |-> JNum(0), i |-> i + 1]
       ELSE [ok |-> TRUE, v |-> JNum(DigitsToNat(SubSeq(s, i, j - 1))), i |-> j]

ParseString(s, i) ==
    IF \A j \in (i + 1)..Len(s) : s[j] # Quote THEN ParseFail
    ELSE LET j == CHOOSE q \in (i + 1)..Len(s) :
                      s[q] = Quote /\ \A k \in (i + 1)..(q - 1) : s[k] # Quote
             body == SubSeq(s, i + 1, j - 1)
         IN IF Range(body) \cap {"\n", "\t"} # {} THEN ParseFail
            ELSE [ok |-> TRUE, v |-> JStr(body), i |-> j + 1]

RECURSIVE ParseValue(_, _), ParseElems(_, _, _), ParseMembers(_, _, _)

ParseValue(s, i) ==
    LET c == CharAt(s, i)
    IN CASE c \in DigitChars -> ParseNumber(s, i)
         [] c = Quote -> ParseString(s, i)
         [] c = "[" ->
              LET j == SkipSet(s, i + 1, JsonWs)
              IN IF CharAt(s, j) = "]" THEN [ok |-> TRUE, v |-> JList(<<>>), i |-> j + 1]
                 ELSE ParseElems(s, j, <<>>)
         [] c = "{" ->
              LET j == SkipSet(s, i + 1, JsonWs)
              IN IF CharAt(s, j) = "}" THEN [ok |-> TRUE, v |-> JObj(<<>>), i |-> j + 1]
                 ELSE ParseMembers(s, j, <<>>)
         [] OTHER -> ParseFail

ParseElems(s, i, acc) ==
    LET r == ParseValue(s, i)
    IN IF ~r.ok THEN ParseFail
       ELSE LET j == SkipSet(s, r.i, JsonWs)
                c == CharAt(s, j)
            IN IF c = "," THEN ParseElems(s, SkipSet(s, j + 1, JsonWs), Append(acc, r.v))
               ELSE IF c = "]" THEN [ok |-> TRUE, v |-> JList(Append(acc, r.v)), i |-> j + 1]
               ELSE ParseFail

ParseMembers(s, i, acc) ==
    IF CharAt(s, i) # Quote THEN ParseFail
    ELSE LET k == ParseString(s, i)
         IN IF ~k.ok THEN ParseFail
            ELSE LET j == SkipSet(s, k.i, JsonWs)
                 IN IF CharAt(s, j) # ":" THEN ParseFail
                    ELSE LET r == ParseValue(s, SkipSet(s, j + 1, JsonWs))
                         IN IF ~r.ok THEN ParseFail
                            ELSE LET m == SkipSet(s, r.i, JsonWs)
                                     c == CharAt(s, m)
                                     d == DictSet(acc, k.v.s, r.v)
                                 IN IF c = ","
                                    THEN ParseMembers(s, SkipSet(s, m + 1, JsonWs), d)
                                    ELSE IF c = "}"
                                    THEN [ok |-> TRUE, v |-> JObj(d), i |-> m + 1]
                                    ELSE ParseFail

\* json.loads(text): [ok, v]; ~ok is json.JSONDecodeError
json_loads(text) ==
    LET r == ParseValue(text, SkipSet(text, 1, JsonWs))
    IN IF r.ok /\ SkipSet(text, r.i, JsonWs) = Len(text) + 1
       THEN [ok |-> TRUE, v |-> r.v]
       ELSE [ok |-> FALSE, v |-> JNum(0)]

\* json.dumps(v), with its default separators ", " and ": "
RECURSIVE json_dumps(_)
json_dumps(v) ==
    CASE v.t = "num" -> NatToDigits(v.n)
      [] v.t = "str" -> <<Quote>> \o v.s \o <<Quote>>
      [] v.t = "list" ->
           <<"[">> \o Join([i \in DOMAIN v.e |-> json_dumps(v.e[i])], <<",", " ">>) \o <<"]">>
      [] v.t = "obj" ->
           <<"{">>
           \o Join([i \in DOMAIN v.e |->
                      <<Quote>> \o v.e[i].k \o <<Quote, ":", " ">> \o json_dumps(v.e[i].v)],
                   <<",", " ">>)
           \o <<"}">>

(***************************************************************************)
(* Tables.  A DataFrame is [columns, rows]: the column labels as text and  *)
(* the rows, each a sequence of cells aligned with the columns.  A cell is *)
(* a scalar value or NaN (a missing value).                                *)
(***************************************************************************)
NaN == [t |-> "nan", n |-> 0, s |-> <<>>, e |-> <<>>]

\* str(v) of a cell, and a column's astype(str)
CellStr(v) ==
    CASE v.t = "num" -> NatToDigits(v.n)
      [] v.t = "str" -> v.s
      [] v.t = "nan" -> <<"n", "a", "n">>
      [] OTHER -> json_dumps(v)

ColumnIndex(df, col) == CHOOSE i \in DOMAIN df.columns : df.columns[i] = col

HasColumn(df, col) == \E i \in DOMAIN df.columns : df.columns[i] = col

(***************************************************************************)
(* pd.DataFrame(data) for the parsed JSON of a completion: [ok, df, e].    *)
(* A list of objects gives the union of their keys in first-seen order as  *)
(* columns and NaN where a record lacks a key; a list of scalars gives the *)
(* one column 0; a bare scalar is rejected by the constructor, and so is a *)
(* list that starts with an object and holds something else.  Lists that   *)
(* start with a list are not drawn by the model.                           *)
(***************************************************************************)
RECURSIVE UnionKeys(_, _)
UnionKeys(records, acc) ==
    IF records = <<>> THEN acc
    ELSE LET ks == DictKeys(Head(records).e)
             new == SelectSeq(ks, LAMBDA k : \A i \in DOMAIN acc : acc[i] # k)
         IN UnionKeys(Tail(records), acc \o new)

IsScalar(v) == v.t \in {"num", "str"}

DataFrame(data) ==
    CASE data.t # "list" ->
           [ok |-> FALSE, df |-> None, e |-> "DataFrame constructor not properly called!"]
      [] data.t = "list" /\ data.e = <<>> ->
           [ok |-> TRUE, df |-> [columns |-> <<>>, rows |-> <<>>], e |-> ""]
      [] data.t = "list" /\ data.e # <<>> /\ data.e[1].t = "obj" ->
           IF \E i \in DOMAIN data.e : data.e[i].t # "obj"
           THEN [ok |-> FALSE, df |-> None, e |-> "object has no attribute 'keys'"]
           ELSE LET cols == UnionKeys(data.e, <<>>)
                IN [ok |-> TRUE,
                    df |-> [columns |-> cols,
                            rows |-> [r \in DOMAIN data.e |->
                                        [c \in DOMAIN cols |->
                                           IF DictHas(data.e[r].e, cols[c])
                                           THEN DictGet(data.e[r].e, cols[c])
                                           ELSE NaN]]],
                    e |-> ""]
      [] OTHER ->
           [ok |-> TRUE,
            df |-> [columns |-> << <<"0">> >>,
                    rows |-> [r \in DOMAIN data.e |-> <<data.e[r]>>]],
            e |-> ""]

(***************************************************************************)
(* df.to_csv(index=False): the header line and one line per row, fields    *)
(* joined by commas, every line ended by a newline.  A column of numbers   *)
(* with a missing value is a float column (1 is written 1.0); NaN is the   *)
(* empty field; a line whose only field is empty is written as two quotes. *)
(* The strings the model draws hold no comma, quote or newline.            *)
(***************************************************************************)
IsFloatColumn(df, c) ==
    /\ \E r \in DOMAIN df.rows : df.rows[r][c].t = "nan"
    /\ \A r \in DOMAIN df.rows : df.rows[r][c].t \in {"nan", "num"}

CsvField(df, r, c) ==
    LET v == df.rows[r][c]
    IN CASE v.t = "nan" -> <<>>
         [] v.t = "num" /\ IsFloatColumn(df, c) -> NatToDigits(v.n) \o <<".", "0">>
         [] OTHER -> CellStr(v)

CsvLine(fields) ==
    (IF fields = << <<>> >> THEN <<Quote, Quote>> ELSE Join(fields, <<",">>)) \o <<"\n">>

to_csv(df) ==
    CsvLine(df.columns)
    \o Flatten([r \in DOMAIN df.rows |-> CsvLine([c \in DOMAIN df.columns |-> CsvField(df, r, c)])])

\* the single mapping passed on as it is
WrapDictMissing(data) == data

\* isinstance(data, dict): data = [data]
WrapDict(data) == IF data.t = "obj" THEN JList(<<data>>) ELSE data

generate_output_csv(invoice_data_json) ==
    LET p == json_loads(invoice_data_json)
    IN IF ~p.ok THEN [error |-> <<"Error generating CSV: ", "JSONDecodeError">>, status |-> "error"]
       ELSE LET data == WrapDict(p.v)
                f == DataFrame(data)
            IN IF ~f.ok THEN [error |-> <<"Error generating CSV: ", f.e>>, status |-> "error"]
               ELSE [csv_data |-> to_csv(f.df),
                     json_data |-> data,
                     message |-> "Successfully generated CSV",
                     status |-> "success"]

\* d.get(k): None when the key is absent
RecGet(d, k) == IF k \in DOMAIN d THEN Some(d[k]) ELSE None

(***************************************************************************)
(* Workbooks.  The bytes of a workbook are a record: whether pd.ExcelFile  *)
(* can open them, and the sheets in workbook order, each [name, columns,   *)
(* rows] with the header cells as read (text not yet trimmed, or numbers). *)
(***************************************************************************)

\* Path(file_name).stem: the last path component without its last suffix
Stem(file_name) ==
    LET parts == Split(file_name, "/")
        name == parts[Len(parts)]
        dots == {i \in DOMAIN name : name[i] = "."}
    IN IF dots = {} THEN name
       ELSE LET i == CHOOSE d \in dots : \A o \in dots : o <= d
            IN IF 1 < i /\ i < Len(name) THEN SubSeq(name, 1, i - 1) ELSE name

\* df.columns.str raises AttributeError on an index of numbers only
StrAccessorOk(columns) ==
    columns = <<>> \/ \E i \in DOMAIN columns : columns[i].t = "str"

\* df.columns = df.columns.str.strip()
StripColumns(columns) == [i \in DOMAIN columns |-> Strip(columns[i].s)]

SheetKey(file_name, sheet_names, sheet_name) ==
    IF Len(sheet_names) > 1 THEN Stem(file_name) \o <<"_">> \o sheet_name
    ELSE Stem(file_name)

\* the loop over excel_file.sheet_names, from sheet i on; an exception in
\* it leaves the loop and keeps what the earlier sheets put in master_data
RECURSIVE LoadSheets(_, _, _, _)
LoadSheets(file_name, sheets, i, master_data) ==
    IF i > Len(sheets) THEN master_data
    ELSE IF ~StrAccessorOk(sheets[i].columns) THEN master_data
    ELSE LET df == [columns |-> StripColumns(sheets[i].columns), rows |-> sheets[i].rows]
             key == SheetKey(file_name, [j \in DOMAIN sheets |-> sheets[j].name], sheets[i].name)
         IN LoadSheets(file_name, sheets, i + 1, DictSet(master_data, key, df))

\* one iteration of the loop over master_data_bytes_dict.items()
LoadWorkbook(file_name, file_bytes, master_data) ==
    IF ~file_bytes.opens THEN master_data
    ELSE LoadSheets(file_name, file_bytes.sheets, 1, master_data)

RECURSIVE LoadFrom(_, _, _)
LoadFrom(items, i, master_data) ==
    IF i > Len(items) THEN master_data
    ELSE LoadFrom(items, i + 1, LoadWorkbook(items[i].k, items[i].v, master_data))

load_master_data(master_data_bytes_dict) == LoadFrom(master_data_bytes_dict, 1, <<>>)

(***************************************************************************)
(* Lookup.  Series.str.contains(pat, case=False, na=False) keeps its       *)
(* default regex=True: the lookup value is compiled as a regular           *)
(* expression and searched for.  Of the pattern language the model draws   *)
(* ordinary characters, the dot (any character but a newline) and the      *)
(* opening parenthesis, which no closing one ever follows, so that a       *)
(* pattern holding it does not compile (re.error).                         *)
(***************************************************************************)
UpperCase == <<"A", "B", "C", "D", "E", "F", "G", "H", "I", "J", "K", "L", "M",
               "N", "O", "P", "Q", "R", "S", "T", "U", "V", "W", "X", "Y", "Z">>
LowerCase == <<"a", "b", "c", "d", "e", "f", "g", "h", "i", "j", "k", "l", "m",
               "n", "o", "p", "q", "r", "s", "t", "u", "v", "w", "x", "y", "z">>

Lower(c) ==
    IF \E i \in DOMAIN UpperCase : UpperCase[i] = c
    THEN LowerCase[CHOOSE i \in DOMAIN UpperCase : UpperCase[i] = c]
    ELSE c

RegexCompiles(pat) == "(" \notin Range(pat)

RegexCharMatches(p, c) == IF p = "." THEN c # "\n" ELSE Lower(p) = Lower(c)

\* re.search(pat, text, re.IGNORECASE) is not None
RegexSearch(pat, text) ==
    \E o \in 0..(Len(text) - Len(pat)) :
        \A i \in DOMAIN pat : RegexCharMatches(pat[i], text[o + i])

str_contains(text, pat) == RegexSearch(pat, text)

lookup_master_data(file_key, lookup_column, lookup_value, return_column, master_data_dfs) ==
    IF ~DictHas(master_data_dfs, file_key)
    THEN [error |-> <<"Master data key not found", file_key>>]
    ELSE LET df == DictGet(master_data_dfs, file_key)
             lc == Strip(lookup_column)
             rc == Strip(return_column)
         IN IF ~HasColumn(df, lc) THEN [error |-> <<"Column not found", lc>>]
            ELSE IF ~HasColumn(df, rc) THEN [error |-> <<"Column not found", rc>>]
            ELSE IF ~RegexCompiles(lookup_value)
            THEN [error |-> <<"Error during lookup", file_key>>, status |-> "error"]
            ELSE LET li == ColumnIndex(df, lc)
                     ri == ColumnIndex(df, rc)
                     result == SelectSeq(df.rows,
                                 LAMBDA row : str_contains(CellStr(row[li]), lookup_value))
                 IN IF result # <<>>
                    THEN [result |-> CellStr(result[1][ri]), status |-> "success"]
                    ELSE [error |-> <<"Value not found", lookup_value>>, status |-> "error"]

(***************************************************************************)
(* The processor after construction: __init__ reads the key from the       *)
(* environment and builds the model client; no other method assigns a      *)
(* field.                                                                  *)
(***************************************************************************)
Processor == [api_key |-> "GOOGLE_API_KEY", model |-> "gemini-2.5-pro"]

\* the file system before any call has written to it
NoFiles == [p \in {} |-> ""]

(***************************************************************************)
(* process_documents.  The frame of a call holds its position pc, its      *)
(* arguments and its locals; ret is None until the call returns.  Base64   *)
(* text is a record [valid, data]: whether base64.b64decode accepts it     *)
(* and the bytes it decodes to.                                            *)
(***************************************************************************)
Encoded(data) == [valid |-> TRUE, data |-> data]
Corrupt(data) == [valid |-> FALSE, data |-> data]

Frame(invoice_b64, jira_b64, master_data_b64) ==
    [pc |-> "decode",
     invoice_b64 |-> invoice_b64,
     jira_b64 |-> jira_b64,
     master_data_b64 |-> master_data_b64,
     invoice_bytes |-> None,
     jira_bytes |-> None,
     master_data_bytes_dict |-> None,
     master_data_dfs |-> None,
     temp_dir |-> None,
     invoice_file |-> None,
     jira_file |-> None,
     response |-> None,
     csv_result |-> None,
     ret |-> None]

Return(c, value) == [c EXCEPT !.pc = "done", !.ret = Some(value)]

\* except Exception as e: return {"error": str(e)}
Handler(c, e) == Return(c, [error |-> <<e>>])

\* lines 93-95
DecodeStep(c) ==
    IF ~c.invoice_b64.valid \/ ~c.jira_b64.valid
       \/ \E i \in DOMAIN c.master_data_b64 : ~c.master_data_b64[i].v.valid
    THEN Handler(c, "Incorrect padding")
    ELSE [c EXCEPT !.pc = "load",
                   !.invoice_bytes = Some(c.invoice_b64.data),
                   !.jira_bytes = Some(c.jira_b64.data),
                   !.master_data_bytes_dict =
                       Some([i \in DOMAIN c.master_data_b64 |->
                               [k |-> c.master_data_b64[i].k,
                                v |-> c.master_data_b64[i].v.data]])]

\* the emptiness check left out
NoMasterDataUnchecked(master_data_dfs) == FALSE

\* if not master_data_dfs
NoMasterData(master_data_dfs) == master_data_dfs = <<>>

\* lines 98-100
LoadStep(c) ==
    LET master_data_dfs == load_master_data(c.master_data_bytes_dict[1])
    IN IF NoMasterData(master_data_dfs)
       THEN Return(c, [error |-> <<"No master data could be loaded.">>])
       ELSE [c EXCEPT !.pc = "upload_invoice", !.master_data_dfs = Some(master_data_dfs)]

\* the preview of the master tables the prompt embeds: the keys in order
\* (the rendering of each table's first rows is left out)
Prompt(master_data_dfs) == DictKeys(master_data_dfs)

UploadRequest(doc) == [op |-> "upload_file", parts |-> <<doc>>]

GenerateRequest(prompt, invoice_file, jira_file) ==
    [op |-> "generate_content", parts |-> <<prompt, invoice_file, jira_file>>]

\* the leading fence cut one character short
StripFencesShort(text) ==
    LET t1 == Strip(text)
        t2 == IF StartsWith(t1, <<Backtick, Backtick, Backtick, "j", "s", "o", "n">>)
              THEN DropFirst(t1, 6) ELSE t1
        t3 == IF EndsWith(t2, <<Backtick, Backtick, Backtick>>)
              THEN DropLast(t2, 3) ELSE t2
    IN Strip(t3)

\* lines 189-194
StripFences(text) ==
    LET t1 == Strip(text)
        t2 == IF StartsWith(t1, <<Backtick, Backtick, Backtick, "j", "s", "o", "n">>)
              THEN DropFirst(t1, 7) ELSE t1
        t3 == IF EndsWith(t2, <<Backtick, Backtick, Backtick>>)
              THEN DropLast(t2, 3) ELSE t2
    IN Strip(t3)

\* lines 199-205
SuccessResult(text, json_data, csv_result, master_data_dfs) ==
    [message |-> "Processing complete.",
     raw_response |-> text,
     json_data |-> json_data,
     csv_data |-> RecGet(csv_result, "csv_data"),
     master_data_keys |-> DictKeys(master_data_dfs)]

\* the stripped text returned in place of the completion
JsonErrorResultStripped(text, response_text) ==
    [message |-> "Processing complete but JSON parsing failed.",
     raw_response |-> response_text,
     error |-> <<"Could not parse JSON from response: ", "JSONDecodeError">>]

\* lines 206-212
JsonErrorResult(text, response_text) ==
    [message |-> "Processing complete but JSON parsing failed.",
     raw_response |-> text,
     error |-> <<"Could not parse JSON from response: ", "JSONDecodeError">>]

\* lines 187-212; response.text raises ValueError when the response holds no text
ParseStep(c) ==
    LET response == c.response[1]
    IN IF response.text = None THEN Handler(c, "response.text: no valid part")
       ELSE LET text == response.text[1]
                response_text == StripFences(text)
                p == json_loads(response_text)
            IN IF ~p.ok THEN Return(c, JsonErrorResult(text, response_text))
               ELSE LET csv_result == generate_output_csv(json_dumps(p.v))
                    IN Return([c EXCEPT !.csv_result = Some(csv_result)],
                              SuccessResult(text, p.v, csv_result, c.master_data_dfs[1]))

(***************************************************************************)
(* The actions of one process_documents call.  The two uploads and the     *)
(* model call leave the process: each is recorded in net when it is made,  *)
(* and its outcome (a result, or an exception) is the environment's.  The  *)
(* call runs its steps in program order, one action per step: decoding,    *)
(* loading, each upload, the model call, and parsing with CSV emission and *)
(* the return.  An exception in any step ends the call in the handler.     *)
(***************************************************************************)
ServiceErrors == {"429 quota exceeded", "503 unavailable"}

\* a failed call made again instead of ending the request
CallRetried(c, e) == c

\* a failed upload or model call: the exception reaches the outer handler
CallFailed(c, e) == Handler(c, e)

Decode ==
    /\ call.pc = "decode"
    /\ call' = DecodeStep(call)
    /\ UNCHANGED <<net, loadIn, loadOut, lookupIn, lookupOut, self, threads, frames, fs>>

LoadMasterData ==
    /\ call.pc = "load"
    /\ call' = LoadStep(call)
    /\ UNCHANGED <<net, loadIn, loadOut, lookupIn, lookupOut, self, threads, frames, fs>>

\* lines 105-112
UploadInvoice ==
    /\ call.pc = "upload_invoice"
    /\ net' = Append(net, UploadRequest(call.invoice_bytes[1]))
    /\ \/ call' = [call EXCEPT !.pc = "upload_jira",
                               !.invoice_file = Some([file |-> call.invoice_bytes[1]])]
       \/ \E e \in ServiceErrors : call' = CallFailed(call, e)
    /\ UNCHANGED <<loadIn, loadOut, lookupIn, lookupOut, self, threads, frames, fs>>

\* line 113
UploadJira ==
    /\ call.pc = "upload_jira"
    /\ net' = Append(net, UploadRequest(call.jira_bytes[1]))
    /\ \/ call' = [call EXCEPT !.pc = "generate",
                               !.jira_file = Some([file |-> call.jira_bytes[1]])]
       \/ \E e \in ServiceErrors : call' = CallFailed(call, e)
    /\ UNCHANGED <<loadIn, loadOut, lookupIn, lookupOut, self, threads, frames, fs>>

(***************************************************************************)
(* The completions the model service may answer with: a body, which is the *)
(* text of a JSON value or is not JSON, between a prefix and a suffix that *)
(* may hold a code fence.                                                   *)
(***************************************************************************)
MemberA1 == [k |-> <<"a">>, v |-> JNum(1)]
MemberAx == [k |-> <<"a">>, v |-> JStr(<<"x">>)]
MemberB2 == [k |-> <<"b">>, v |-> JNum(2)]

Objects ==
    {JObj(m) : m \in {<<>>, <<MemberA1>>, <<MemberAx>>, <<MemberB2>>,
                      <<MemberA1, MemberB2>>, <<MemberAx, MemberB2>>,
                      <<MemberB2, MemberA1>>, <<MemberB2, MemberAx>>}}

ObjectLists == {JList(e) : e \in UNION {[1..n -> Objects] : n \in 0..MaxRecords}}

OtherValues ==
    {JNum(7), JStr(<<"x">>), JList(<<JNum(7)>>), JList(<<JNum(7), JStr(<<"x">>)>>),
     JList(<<JObj(<<MemberA1>>), JNum(7)>>)}

JsonValues == Objects \cup ObjectLists \cup OtherValues

\* texts json.dumps does not produce: no spaces, inner newlines, a repeated key
CompactTexts ==
    {<<"{", Quote, "a", Quote, ":", "1", ",", Quote, "b", Quote, ":", "2", "}">>,
     <<"[", "\n", "{", Quote, "b", Quote, ":", "2", "}", ",", "\n", "{", "}", "]">>,
     <<"{", Quote, "a", Quote, ":", "1", ",", Quote, "a", Quote, ":", "3", "}">>}

JsonTexts == {json_dumps(v) : v \in JsonValues} \cup CompactTexts

NonJsonTexts ==
    {<<>>,
     <<"n", "o">>,
     <<"{", Quote, "a", Quote, ":">>,
     <<"[", "1", ",", "]">>,
     <<"[", "1", "]", " ", "x">>,
     <<"{", Quote, "a", Quote, ":", "1", "}", Backtick>>}

Fence == <<Backtick, Backtick, Backtick>>
JsonFence == Fence \o <<"j", "s", "o", "n">>

Prefixes == {<<>>, JsonFence, <<" ">> \o JsonFence \o <<"\n">>, Fence \o <<"\n">>}
Suffixes == {<<>>, Fence, <<"\n">> \o Fence \o <<"\n", " ">>}

Completions ==
    {pre \o body \o post :
        pre \in Prefixes, body \in JsonTexts \cup NonJsonTexts, post \in Suffixes}

\* lines 116-184: the prompt is built and the one request made
GenerateContent ==
    /\ call.pc = "generate"
    /\ net' = Append(net, GenerateRequest(Prompt(call.master_data_dfs[1]),
                                          call.invoice_file[1], call.jira_file[1]))
    /\ \/ \E text \in Completions :
            call' = [call EXCEPT !.pc = "parse", !.response = Some([text |-> Some(text)])]
       \/ call' = [call EXCEPT !.pc = "parse", !.response = Some([text |-> None])]
       \/ \E e \in ServiceErrors : call' = CallFailed(call, e)
    /\ UNCHANGED <<loadIn, loadOut, lookupIn, lookupOut, self, threads, frames, fs>>

ParseResponse ==
    /\ call.pc = "parse"
    /\ call' = ParseStep(call)
    /\ UNCHANGED <<net, loadIn, loadOut, lookupIn, lookupOut, self, threads, frames, fs>>

(***************************************************************************)
(* The workbooks and mappings the model draws.                             *)
(***************************************************************************)
Headers == <<JStr(<<" ", "n">>), JStr(<<"c", " ">>)>>
YearHeaders == <<JNum(2020), JNum(2021)>>

Sheet(name, columns, code) ==
    [name |-> name, columns |-> columns,
     rows |-> << <<JStr(<<"A", "b">>), JStr(code)>> >>]

Workbook(sheets) == [opens |-> TRUE, sheets |-> sheets]

NotAWorkbook == [opens |-> FALSE, sheets |-> <<>>]

WbSingle == Workbook(<<Sheet(<<"s">>, Headers, <<"1">>)>>)
WbOther == Workbook(<<Sheet(<<"s">>, Headers, <<"2">>)>>)
WbTwo == Workbook(<<Sheet(<<"s">>, Headers, <<"3">>), Sheet(<<"t">>, Headers, <<"4">>)>>)
WbLastSheetFails ==
    Workbook(<<Sheet(<<"s">>, Headers, <<"5">>), Sheet(<<"t">>, YearHeaders, <<"6">>)>>)
WbFirstSheetFails ==
    Workbook(<<Sheet(<<"s">>, YearHeaders, <<"7">>), Sheet(<<"t">>, Headers, <<"8">>)>>)

Workbooks == {WbSingle, WbOther, WbTwo, NotAWorkbook, WbLastSheetFails, WbFirstSheetFails}

FileNames ==
    {<<"a", ".", "x", "l", "s", "x">>,
     <<"a", ".", "x", "l", "s">>,
     <<"a", "_", "t", ".", "x", "l", "s", "x">>,
     <<"d", "/", "b", ".", "x", "l", "s", "x">>}

\* a dict of at most n entries: the keys are distinct
MappingsOf(names, values, n) ==
    {m \in UNION {[1..l -> [k : names, v : values]] : l \in 0..n} :
        \A i, j \in DOMAIN m : i # j => m[i].k # m[j].k}

MasterMappings == MappingsOf(FileNames, Workbooks, MaxWorkbooks)

(***************************************************************************)
(* Specification of one process_documents call, for every drawn argument   *)
(* and every answer of the model service.                                  *)
(***************************************************************************)
InvoiceInputs == {Encoded("invoice.pdf"), Corrupt("invoice.pdf")}
JiraInputs == {Encoded("jira.pdf"), Corrupt("jira.pdf")}

NameA == <<"a", ".", "x", "l", "s", "x">>
NameB == <<"a", ".", "x", "l", "s">>

MasterInputs ==
    {<<>>,
     <<[k |-> NameA, v |-> Encoded(NotAWorkbook)]>>,
     <<[k |-> NameA, v |-> Encoded(WbFirstSheetFails)]>>,
     <<[k |-> NameA, v |-> Corrupt(WbSingle)]>>,
     <<[k |-> NameA, v |-> Encoded(WbSingle)]>>,
     <<[k |-> NameA, v |-> Encoded(WbTwo)], [k |-> NameB, v |-> Encoded(NotAWorkbook)]>>}

Idle == [pc |-> "idle"]

Init ==
    /\ call \in {Frame(i, j, m) : i \in InvoiceInputs, j \in JiraInputs, m \in MasterInputs}
    /\ net = <<>>
    /\ loadIn = None /\ loadOut = None
    /\ lookupIn = None /\ lookupOut = None
    /\ self = Processor /\ threads = <<>> /\ frames = <<>> /\ fs = NoFiles

Next ==
    \/ Decode
    \/ LoadMasterData
    \/ UploadInvoice
    \/ UploadJira
    \/ GenerateContent
    \/ ParseResponse

Spec == Init /\ [][Next]_vars

(***************************************************************************)
(* Specification of a direct load_master_data call.                        *)
(***************************************************************************)
InitLoad ==
    /\ call = Idle /\ net = <<>>
    /\ loadIn \in {Some(m) : m \in MasterMappings}
    /\ loadOut = None
    /\ lookupIn = None /\ lookupOut = None
    /\ self = Processor /\ threads = <<>> /\ frames = <<>> /\ fs = NoFiles

LoadCall ==
    /\ loadIn # None /\ loadOut = None
    /\ loadOut' = Some(load_master_data(loadIn[1]))
    /\ UNCHANGED <<call, net, loadIn, lookupIn, lookupOut, self, threads, frames, fs>>

SpecLoad == InitLoad /\ [][LoadCall]_vars

(***************************************************************************)
(* Specification of a direct lookup_master_data call on a loaded table.    *)
(***************************************************************************)
MaxRows == 2

NameCells == {JStr(<<"A", "b">>), JStr(<<"b", ".">>), JNum(12), NaN}
Codes == <<JStr(<<"V", "1">>), JStr(<<"V", "2">>), JStr(<<"V", "3">>), JStr(<<"V", "4">>)>>

LookupTables ==
    {[columns |-> << <<"n">>, <<"c">> >>,
      rows |-> [r \in DOMAIN names |-> <<names[r], Codes[r]>>]] :
        names \in UNION {[1..l -> NameCells] : l \in 0..MaxRows}}

PatternChars == {"a", "B", "1", ".", "("}

LookupValues == UNION {[1..l -> PatternChars] : l \in 0..MaxPatLen}

LookupArgs ==
    {[file_key |-> <<"m">>, lookup_column |-> <<"n">>, return_column |-> <<"c">>],
     [file_key |-> <<"m">>, lookup_column |-> <<" ", "n">>, return_column |-> <<"c", " ">>],
     [file_key |-> <<"q">>, lookup_column |-> <<"n">>, return_column |-> <<"c">>],
     [file_key |-> <<"m">>, lookup_column |-> <<"z">>, return_column |-> <<"c">>],
     [file_key |-> <<"m">>, lookup_column |-> <<"n">>, return_column |-> <<"z">>]}

InitLookup ==
    /\ call = Idle /\ net = <<>>
    /\ loadIn = None /\ loadOut = None
    /\ lookupIn \in {Some([file_key |-> a.file_key, lookup_column |-> a.lookup_column,
                           lookup_value |-> v, return_column |-> a.return_column,
                           master_data_dfs |-> <<[k |-> <<"m">>, v |-> t]>>]) :
                        a \in LookupArgs, v \in LookupValues, t \in LookupTables}
    /\ lookupOut = None
    /\ self = Processor /\ threads = <<>> /\ frames = <<>> /\ fs = NoFiles

LookupCall ==
    /\ lookupIn # None /\ lookupOut = None
    /\ lookupOut' = Some(lookup_master_data(lookupIn[1].file_key, lookupIn[1].lookup_column,
                                            lookupIn[1].lookup_value, lookupIn[1].return_column,
                                            lookupIn[1].master_data_dfs))
    /\ UNCHANGED <<call, net, loadIn, loadOut, lookupIn, self, threads, frames, fs>>

SpecLookup == InitLookup /\ [][LookupCall]_vars

(***************************************************************************)
(* Concurrent process_documents calls on one processor.  Each call is a    *)
(* thread: its position, the arguments its caller passed, the replies the  *)
(* services gave it so far, and the value it returned.  The parameters and *)
(* locals of a call are in its activation record.  What the calls share is *)
(* the processor, the file system under the temporary directories, and the *)
(* services.  A thread takes one step at a time, in any order with the     *)
(* steps of the other.                                                     *)
(***************************************************************************)
CallIds == {1, 2}

\* the locals of every call kept in one place, as fields of self would be
FrameShared(id) == 1

\* Python creates an activation record per call: parameters and locals are
\* the call's own
FrameOf(id) == id

\* tempfile.TemporaryDirectory(): a new directory, unlike any other call's
TempDir(id) == id

InvoicePath(temp_dir) == <<temp_dir, "invoice.pdf">>
JiraPath(temp_dir) == <<temp_dir, "jira.pdf">>

write_bytes(files, path, bytes) ==
    [p \in DOMAIN files \cup {path} |-> IF p = path THEN bytes ELSE files[p]]

\* leaving the with block removes the directory and the files under it
Cleanup(files, temp_dir) ==
    [p \in {q \in DOMAIN files : q[1] # temp_dir} |-> files[p]]

\* the with block is left when the call returns or raises
Leave(files, c) ==
    IF c.pc = "done" /\ c.temp_dir # None THEN Cleanup(files, c.temp_dir[1]) ELSE files

\* what a service answers a request with: a result, carrying a text or
\* none, or an exception
Answered(text) == [ok |-> TRUE, e |-> "", text |-> Some(text)]
Accepted == [ok |-> TRUE, e |-> "", text |-> None]
Failed(e) == [ok |-> FALSE, e |-> e, text |-> None]

UploadReplies == {Accepted} \cup {Failed(e) : e \in ServiceErrors}

ConcCompletions ==
    {json_dumps(JObj(<<MemberA1>>)),
     JsonFence \o <<"\n">> \o json_dumps(JList(<<JObj(<<MemberB2>>)>>)) \o <<"\n">> \o Fence,
     <<"n", "o">>}

GenerateReplies ==
    {Answered(text) : text \in ConcCompletions} \cup {Accepted}
        \cup {Failed(e) : e \in ServiceErrors}

\* lines 105-107
EnterTempStep(c, temp_dir) == [c EXCEPT !.temp_dir = Some(temp_dir)]

\* line 112
UploadInvoiceStep(c, doc, reply) ==
    IF reply.ok
    THEN [c EXCEPT !.pc = "upload_jira", !.invoice_file = Some([file |-> doc])]
    ELSE CallFailed(c, reply.e)

\* line 113
UploadJiraStep(c, doc, reply) ==
    IF reply.ok
    THEN [c EXCEPT !.pc = "generate", !.jira_file = Some([file |-> doc])]
    ELSE CallFailed(c, reply.e)

\* line 184
GenerateStep(c, reply) ==
    IF reply.ok
    THEN [c EXCEPT !.pc = "parse", !.response = Some([text |-> reply.text])]
    ELSE CallFailed(c, reply.e)

\* the frame a thread works on: its activation record at its own position
View(id) ==
    [frames[FrameOf(id)] EXCEPT !.pc = threads[id].pc, !.ret = threads[id].ret]

\* a step's effect on the thread and on its activation record
Commit(id, c, replies) ==
    /\ frames' = [frames EXCEPT ![FrameOf(id)] = c]
    /\ threads' = [threads EXCEPT ![id].pc = c.pc, ![id].ret = c.ret,
                                  ![id].replies = replies]

Sent(id, request) == Append(net, [by |-> id, req |-> request])

ThreadDecode(id) ==
    /\ threads[id].pc = "decode"
    /\ Commit(id, DecodeStep(View(id)), threads[id].replies)
    /\ UNCHANGED <<call, net, loadIn, loadOut, lookupIn, lookupOut, self, fs>>

ThreadLoad(id) ==
    /\ threads[id].pc = "load"
    /\ Commit(id, LoadStep(View(id)), threads[id].replies)
    /\ UNCHANGED <<call, net, loadIn, loadOut, lookupIn, lookupOut, self, fs>>

\* lines 105-109
ThreadEnterTemp(id) ==
    LET c == View(id)
        temp_dir == TempDir(id)
    IN /\ c.pc = "upload_invoice" /\ c.temp_dir = None
       /\ fs' = write_bytes(write_bytes(fs, InvoicePath(temp_dir), c.invoice_bytes[1]),
                            JiraPath(temp_dir), c.jira_bytes[1])
       /\ Commit(id, EnterTempStep(c, temp_dir), threads[id].replies)
       /\ UNCHANGED <<call, net, loadIn, loadOut, lookupIn, lookupOut, self>>

\* genai.upload_file on the invoice (line 112) or the Jira ticket (line 113)
UploadStep(document, c, doc, reply) ==
    IF document = "invoice" THEN UploadInvoiceStep(c, doc, reply)
    ELSE UploadJiraStep(c, doc, reply)

\* a request that sends the file at path, or FileNotFoundError
Upload(id, c, path, document) ==
    IF path \in DOMAIN fs
    THEN /\ net' = Sent(id, UploadRequest(fs[path]))
         /\ \E reply \in UploadReplies :
               LET c2 == UploadStep(document, c, fs[path], reply)
               IN /\ Commit(id, c2, Append(threads[id].replies, reply))
                  /\ fs' = Leave(fs, c2)
    ELSE LET c2 == Handler(c, "FileNotFoundError")
         IN /\ Commit(id, c2, threads[id].replies)
            /\ fs' = Leave(fs, c2)
            /\ net' = net

ThreadUploadInvoice(id) ==
    LET c == View(id)
    IN /\ c.pc = "upload_invoice" /\ c.temp_dir # None
       /\ Upload(id, c, InvoicePath(c.temp_dir[1]), "invoice")
       /\ UNCHANGED <<call, loadIn, loadOut, lookupIn, lookupOut, self>>

ThreadUploadJira(id) ==
    LET c == View(id)
    IN /\ c.pc = "upload_jira"
       /\ Upload(id, c, JiraPath(c.temp_dir[1]), "jira")
       /\ UNCHANGED <<call, loadIn, loadOut, lookupIn, lookupOut, self>>

\* lines 116-184
ThreadGenerate(id) ==
    LET c == View(id)
    IN /\ c.pc = "generate"
       /\ net' = Sent(id, GenerateRequest(Prompt(c.master_data_dfs[1]),
                                          c.invoice_file[1], c.jira_file[1]))
       /\ \E reply \in GenerateReplies :
             LET c2 == GenerateStep(c, reply)
             IN /\ Commit(id, c2, Append(threads[id].replies, reply))
                /\ fs' = Leave(fs, c2)
       /\ UNCHANGED <<call, loadIn, loadOut, lookupIn, lookupOut, self>>

\* lines 187-216
ThreadParse(id) ==
    LET c == View(id)
        c2 == ParseStep(c)
    IN /\ c.pc = "parse"
       /\ Commit(id, c2, threads[id].replies)
       /\ fs' = Leave(fs, c2)
       /\ UNCHANGED <<call, net, loadIn, loadOut, lookupIn, lookupOut, self>>

(***************************************************************************)
(* Specification of two concurrent calls, for the drawn arguments and      *)
(* every reply of the services.                                            *)
(***************************************************************************)
Args(invoice_b64, jira_b64, master_data_b64) ==
    [invoice_b64 |-> invoice_b64, jira_b64 |-> jira_b64,
     master_data_b64 |-> master_data_b64]

ConcArgs ==
    {Args(Encoded("invoice A"), Encoded("jira A"),
          <<[k |-> NameA, v |-> Encoded(WbSingle)]>>),
     Args(Encoded("invoice B"), Encoded("jira B"),
          <<[k |-> NameA, v |-> Encoded(WbTwo)], [k |-> NameB, v |-> Encoded(NotAWorkbook)]>>),
     Args(Encoded("invoice A"), Encoded("jira B"),
          <<[k |-> NameA, v |-> Encoded(NotAWorkbook)]>>),
     Args(Corrupt("invoice B"), Encoded("jira A"),
          <<[k |-> NameA, v |-> Encoded(WbSingle)]>>)}

Thread(args) == [pc |-> "decode", args |-> args, replies |-> <<>>, ret |-> None]

FrameFor(args) == Frame(args.invoice_b64, args.jira_b64, args.master_data_b64)

InitConc ==
    /\ call = Idle /\ net = <<>>
    /\ loadIn = None /\ loadOut = None
    /\ lookupIn = None /\ lookupOut = None
    /\ self = Processor
    /\ threads \in [CallIds -> {Thread(args) : args \in ConcArgs}]
    /\ frames = [id \in CallIds |-> FrameFor(threads[id].args)]
    /\ fs = NoFiles

NextConc ==
    \E id \in CallIds :
        \/ ThreadDecode(id)
        \/ ThreadLoad(id)
        \/ ThreadEnterTemp(id)
        \/ ThreadUploadInvoice(id)
        \/ ThreadUploadJira(id)
        \/ ThreadGenerate(id)
        \/ ThreadParse(id)

SpecConc == InitConc /\ [][NextConc]_vars

(***************************************************************************)
(* What the formulas below read off a finished call.                       *)
(***************************************************************************)
Returned == call.pc = "done" /\ call.ret # None
Result == call.ret[1]

HasCompletion == call.pc \in {"parse", "done"} /\ call.response # None /\ call.response[1].text # None
Completion == call.response[1].text[1]

NetOps == [i \in DOMAIN net |-> net[i].op]

SuccessFields == {"message", "raw_response", "json_data", "csv_data", "master_data_keys"}

IsSuccessShape(r) == DOMAIN r = SuccessFields /\ r.csv_data # None

IsFailureShape(r) == DOMAIN r \in {{"error"}, {"error", "raw_response"}}

\* C1: every returned value is a success value (message, raw_response,
\* json_data, a csv_data string and master_data_keys, no error) or a failure
\* value (error, optionally raw_response), and never a mix of the two.
C1_OneOfTwoShapes ==
    Returned => IsSuccessShape(Result) \/ IsFailureShape(Result)

DecodeFailed ==
    \/ ~call.invoice_b64.valid
    \/ ~call.jira_b64.valid
    \/ \E i \in DOMAIN call.master_data_b64 : ~call.master_data_b64[i].v.valid

LoadFailed ==
    call.master_data_bytes_dict # None /\ call.master_data_dfs = None

UploadFailed ==
    /\ net # <<>> /\ net[Len(net)].op = "upload_file"
    /\ (Len(net) = 1 => call.invoice_file = None)
    /\ (Len(net) = 2 => call.jira_file = None)

ModelCallFailed ==
    net # <<>> /\ net[Len(net)].op = "generate_content" /\ call.response = None

ParseFailed == HasCompletion /\ ~json_loads(StripFences(Completion)).ok

CsvFailed == call.csv_result # None /\ "error" \in DOMAIN call.csv_result[1]

\* C2: a call always ends by returning a value; when a stage failed (decoding,
\* master data loading, an upload, the model call, JSON parsing, CSV
\* generation) that value has an error field, and after a failed model call
\* the error field is the exception's message.
C2_StageFailureIsError ==
    call.pc = "done" =>
        /\ call.ret # None
        /\ (DecodeFailed \/ LoadFailed \/ UploadFailed \/ ModelCallFailed
            \/ ParseFailed \/ CsvFailed) => "error" \in DOMAIN Result
        /\ ModelCallFailed =>
              "error" \in DOMAIN Result /\ Result.error \in {<<e>> : e \in ServiceErrors}

\* C3: when the completion is not valid JSON after fence stripping, the
\* returned value has an error field, its raw_response is the completion
\* text unchanged, and it has no json_data and no csv_data.
C3_ParseErrorCarriesRaw ==
    (call.pc = "done" /\ ParseFailed) =>
        /\ call.ret # None
        /\ "error" \in DOMAIN Result
        /\ "raw_response" \in DOMAIN Result
        /\ Result.raw_response = Completion
        /\ {"json_data", "csv_data"} \cap DOMAIN Result = {}

\* a completion that fence stripping changes is returned verbatim with an error
C3_Witness ==
    /\ call.pc = "done" /\ ParseFailed /\ call.ret # None
    /\ StartsWith(Strip(Completion), JsonFence)
    /\ StripFences(Completion) # Completion
    /\ "error" \in DOMAIN Result /\ Result.raw_response = Completion

\* the text between a prefix and a suffix of the completion
Middle(text, pre, post) == SubSeq(text, Len(pre) + 1, Len(text) - Len(post))

Wraps(text, pre, post) ==
    /\ Len(text) >= Len(pre) + Len(post)
    /\ StartsWith(text, pre)
    /\ EndsWith(text, post)
    /\ json_loads(Middle(text, pre, post)).ok

LeadingFences == {JsonFence, <<" ">> \o JsonFence \o <<"\n">>}
TrailingFences == {Fence, <<"\n">> \o Fence \o <<"\n", " ">>}

\* a completion pre J post, J a JSON text, yields the json_data of J alone
YieldsDataOf(pre, post) ==
    Wraps(Completion, pre, post) =>
        /\ "json_data" \in DOMAIN Result
        /\ Result.json_data = json_loads(Middle(Completion, pre, post)).v

\* C4 (as amended): a completion made of a leading json fence, a JSON text J
\* and a trailing fence, with any surrounding whitespace, yields the same
\* json_data as J alone; and the trailing fence is removed whenever the
\* trimmed completion ends with it, so J followed by a trailing fence alone
\* yields the json_data of J as well.
C4_FenceRoundTrip ==
    (Returned /\ HasCompletion) =>
        \A pre \in LeadingFences \cup {<<>>}, post \in TrailingFences : YieldsDataOf(pre, post)

\* a fenced JSON text was parsed to the data of the text inside the fences
C4_Witness ==
    /\ Returned /\ HasCompletion
    /\ \E pre \in LeadingFences, post \in TrailingFences :
          /\ Wraps(Completion, pre, post)
          /\ Result.json_data = json_loads(Middle(Completion, pre, post)).v
          /\ Result.json_data.t = "obj" /\ Result.json_data.e # <<>>

\* C4 (as claimed): the round trip, and the trailing fence is removed only
\* from a completion that began with the leading json fence: a completion
\* that ends with a fence without beginning with one is left with its fence,
\* which no JSON text ends with, and fails to parse.
C4_TrailingFenceOnlyWithLeading ==
    (Returned /\ HasCompletion) =>
        /\ \A pre \in LeadingFences, post \in TrailingFences : YieldsDataOf(pre, post)
        /\ (~StartsWith(Strip(Completion), JsonFence) /\ EndsWith(Strip(Completion), Fence))
              => "error" \in DOMAIN Result

(***************************************************************************)
(* Reading a CSV text back: its lines, and the fields of a line.           *)
(***************************************************************************)
CsvLines(csv) ==
    LET parts == Split(csv, "\n") IN SubSeq(parts, 1, Len(parts) - 1)

CsvFields(line) ==
    IF line = <<>> THEN <<>>
    ELSE IF line = <<Quote, Quote>> THEN << <<>> >>
    ELSE Split(line, ",")

\* the records of a completion that is one JSON object or a list of objects
ParsedCompletion == json_loads(StripFences(Completion))

IsRecords(v) ==
    \/ v.t = "obj"
    \/ v.t = "list" /\ \A i \in DOMAIN v.e : v.e[i].t = "obj"

RecordsOf(v) == IF v.t = "obj" THEN <<v.e>> ELSE [i \in DOMAIN v.e |-> v.e[i].e]

\* where a field name is first seen: the first record that has it, and its
\* place among that record's fields
FirstRecord(records, k) ==
    CHOOSE r \in DOMAIN records :
        DictHas(records[r], k) /\ \A q \in 1..(r - 1) : ~DictHas(records[q], k)

PlaceIn(record, k) == CHOOSE i \in DOMAIN record : record[i].k = k

SeenBefore(records, k1, k2) ==
    LET r1 == FirstRecord(records, k1)
        r2 == FirstRecord(records, k2)
    IN r1 < r2 \/ (r1 = r2 /\ PlaceIn(records[r1], k1) < PlaceIn(records[r1], k2))

CsvOfRecords(csv, records) ==
    LET lines == CsvLines(csv)
        header == CsvFields(lines[1])
    IN /\ csv # <<>> /\ csv[Len(csv)] = "\n"
       /\ Len(lines) = Len(records) + 1
       /\ Range(header) = UNION {Range(DictKeys(records[r])) : r \in DOMAIN records}
       /\ \A i, j \in DOMAIN header : i < j => SeenBefore(records, header[i], header[j])
       /\ \A r \in DOMAIN records :
             LET fields == CsvFields(lines[r + 1])
             IN /\ Len(fields) = Len(header)
                /\ \A c \in DOMAIN header :
                      ~DictHas(records[r], header[c]) => fields[c] = <<>>

\* C6: a completion that is one JSON object yields a CSV of one header row
\* and one data row, and a JSON list of n objects one header row and n data
\* rows; the header is the union of the records' field names in first-seen
\* order, and a field a record lacks is an empty cell in that record's row.
C6_CsvOverRecords ==
    (Returned /\ HasCompletion /\ ParsedCompletion.ok /\ IsRecords(ParsedCompletion.v)) =>
        /\ "csv_data" \in DOMAIN Result
        /\ Result.csv_data # None
        /\ CsvOfRecords(Result.csv_data[1], RecordsOf(ParsedCompletion.v))

\* two records with different fields, the second bringing a new one first
C6_Witness ==
    /\ Returned /\ HasCompletion /\ ParsedCompletion.ok
    /\ ParsedCompletion.v = JList(<<JObj(<<MemberA1>>), JObj(<<MemberB2, MemberAx>>)>>)
    /\ Result.csv_data =
          Some(<<"a", ",", "b", "\n", "1", ",", "\n", "x", ",", "2", ".", "0", "\n">>)

(***************************************************************************)
(* Lookup, as the claim states it: literal containment ignoring case.      *)
(***************************************************************************)
LowerText(text) == [i \in DOMAIN text |-> Lower(text[i])]

ContainsLiteral(text, value) ==
    \E o \in 0..(Len(text) - Len(value)) :
        SubSeq(LowerText(text), o + 1, o + Len(value)) = LowerText(value)

\* C5: for a loaded table and existing lookup and return columns,
\* lookup_master_data returns the return-column value of the first row, in
\* table order, whose lookup-column cell as a string contains the lookup
\* value ignoring case, and a not-found error value when no row does.
C5_LiteralFirstMatch ==
    lookupOut # None =>
        LET in == lookupIn[1]
            out == lookupOut[1]
            dfs == in.master_data_dfs
            lc == Strip(in.lookup_column)
            rc == Strip(in.return_column)
        IN (DictHas(dfs, in.file_key)
            /\ HasColumn(DictGet(dfs, in.file_key), lc)
            /\ HasColumn(DictGet(dfs, in.file_key), rc)) =>
              LET df == DictGet(dfs, in.file_key)
                  li == ColumnIndex(df, lc)
                  ri == ColumnIndex(df, rc)
                  hits == {r \in DOMAIN df.rows :
                              ContainsLiteral(CellStr(df.rows[r][li]), in.lookup_value)}
              IN IF hits = {}
                 THEN /\ DOMAIN out = {"error", "status"}
                      /\ out.error = <<"Value not found", in.lookup_value>>
                 ELSE /\ "error" \notin DOMAIN out
                      /\ "result" \in DOMAIN out
                      /\ out.result =
                           CellStr(df.rows[CHOOSE r \in hits : \A q \in hits : r <= q][ri])

(***************************************************************************)
(* Loading, as the claims state it.                                        *)
(***************************************************************************)
\* the workbook cannot be loaded whole: it does not open, or a sheet fails
FailsToParse(wb) ==
    ~wb.opens \/ \E i \in DOMAIN wb.sheets : ~StrAccessorOk(wb.sheets[i].columns)

SheetNames(wb) == [j \in DOMAIN wb.sheets |-> wb.sheets[j].name]

\* the table a sheet is read into
TableOf(sheet) == [columns |-> StripColumns(sheet.columns), rows |-> sheet.rows]

\* the sheets of the mapping's workbooks that satisfy a condition on the
\* workbook, as <<entry, sheet>> index pairs
SheetsWhere(mapping, Cond(_)) ==
    {p \in UNION {{<<i, j>> : j \in DOMAIN mapping[i].v.sheets} : i \in DOMAIN mapping} :
        Cond(mapping[p[1]].v)}

KeyOf(mapping, p) ==
    SheetKey(mapping[p[1]].k, SheetNames(mapping[p[1]].v), mapping[p[1]].v.sheets[p[2]].name)

WellFormed(wb) == ~FailsToParse(wb)

\* no two sheets of the mapping are given the same key
NoKeyClash(mapping) ==
    \A p, q \in SheetsWhere(mapping, LAMBDA wb : wb.opens) :
        p # q => KeyOf(mapping, p) # KeyOf(mapping, q)

\* C7: a workbook that fails to parse contributes no table to the result,
\* and every sheet of every well-formed workbook is in the result, wherever
\* the failing workbook sits in the mapping.  (Stated for the mappings whose
\* sheets are all given different keys.)
C7_LoaderIsolation ==
    (loadOut # None /\ NoKeyClash(loadIn[1])) =>
        LET mapping == loadIn[1]
            result == loadOut[1]
        IN /\ \A p \in SheetsWhere(mapping, FailsToParse) :
                 ~DictHas(result, KeyOf(mapping, p))
           /\ \A p \in SheetsWhere(mapping, WellFormed) :
                 /\ DictHas(result, KeyOf(mapping, p))
                 /\ DictGet(result, KeyOf(mapping, p)) = TableOf(mapping[p[1]].v.sheets[p[2]])

\* C8: the result holds one table per sheet of the parsed workbooks, a
\* single-sheet workbook's under its base name and a multi-sheet workbook's
\* under "{workbook}_{sheet}", none overwritten by another's.  (Stated for
\* the mappings whose workbooks are all well-formed.)
C8_LoaderKeying ==
    (loadOut # None /\ \A i \in DOMAIN loadIn[1] : WellFormed(loadIn[1][i].v)) =>
        LET mapping == loadIn[1]
            result == loadOut[1]
            sheets == SheetsWhere(mapping, WellFormed)
        IN /\ Len(result) = Cardinality(sheets)
           /\ \A p \in sheets :
                 /\ DictHas(result, KeyOf(mapping, p))
                 /\ DictGet(result, KeyOf(mapping, p)) = TableOf(mapping[p[1]].v.sheets[p[2]])

(***************************************************************************)
(* The order of a request's steps.                                         *)
(***************************************************************************)
ModelCalled == \E i \in DOMAIN net : net[i].op = "generate_content"

\* C9: when master data loading yields an empty mapping, the call returns a
\* failure value with an error field, and nothing was uploaded and the model
\* was not invoked; the model is invoked only with at least one table loaded.
C9_NoMasterDataEndsRequest ==
    /\ (/\ call.master_data_bytes_dict # None
        /\ call.pc # "load"
        /\ load_master_data(call.master_data_bytes_dict[1]) = <<>>) =>
            /\ Returned
            /\ "error" \in DOMAIN Result
            /\ net = <<>>
    /\ net # <<>> => (call.master_data_dfs # None /\ call.master_data_dfs[1] # <<>>)

\* every workbook of a non-empty mapping failed, and the call ended there
C9_Witness ==
    /\ Returned
    /\ call.master_data_bytes_dict # None /\ call.master_data_bytes_dict[1] # <<>>
    /\ load_master_data(call.master_data_bytes_dict[1]) = <<>>
    /\ Result = [error |-> <<"No master data could be loaded.">>]
    /\ net = <<>>

IsPrefix(s, t) == Len(s) <= Len(t) /\ SubSeq(t, 1, Len(s)) = s

\* the model call happens at most once, after decoding and loading and
\* before parsing, carries the prompt and the two documents, and a failed
\* call ends the request with an error
ModelCallOnce ==
    /\ Cardinality({i \in DOMAIN net : net[i].op = "generate_content"}) <= 1
    /\ ModelCalled =>
          /\ call.pc \in {"parse", "done"}
          /\ call.invoice_bytes # None /\ call.jira_bytes # None
          /\ call.master_data_dfs # None
          /\ net[Len(net)] = GenerateRequest(Prompt(call.master_data_dfs[1]),
                                             [file |-> call.invoice_bytes[1]],
                                             [file |-> call.jira_bytes[1]])
    /\ (call.response # None \/ call.csv_result # None) => ModelCalled
    /\ (call.ret # None /\ "raw_response" \in DOMAIN Result) => ModelCalled
    /\ ModelCallFailed => (Returned /\ "error" \in DOMAIN Result)

\* C10 (as amended): per request the prompt and the two uploaded documents
\* are submitted to the model in a single call, made at most once, strictly
\* after decoding and master data loading and before parsing, and never
\* retried after a failure; the calls crossing the network boundary are that
\* call and, before it, the upload of each document, each made at most once.
C10_ModelCallOnceAfterUploads ==
    /\ ModelCallOnce
    /\ IsPrefix(NetOps, <<"upload_file", "upload_file", "generate_content">>)

\* the model call failed and the request ended, with no second call
C10_Witness ==
    /\ Returned /\ ModelCallFailed
    /\ NetOps = <<"upload_file", "upload_file", "generate_content">>
    /\ Result.error \in {<<e>> : e \in ServiceErrors}

\* C10 (as claimed): the model call is the only call that crosses the
\* network boundary.
C10_OnlyNetworkCall ==
    /\ ModelCallOnce
    /\ \A i \in DOMAIN net : net[i].op = "generate_content"

(***************************************************************************)
(* What the formulas below read off two concurrent calls.                  *)
(***************************************************************************)
\* the call run by itself on the same arguments, given the same replies:
\* its steps in program order on a frame of its own, nothing else running
Alone(args, replies) ==
    LET c1 == DecodeStep(FrameFor(args))
        c2 == IF c1.pc = "load" THEN LoadStep(c1) ELSE c1
        c3 == IF c2.pc = "upload_invoice" /\ Len(replies) >= 1
              THEN UploadInvoiceStep(c2, c2.invoice_bytes[1], replies[1]) ELSE c2
        c4 == IF c3.pc = "upload_jira" /\ Len(replies) >= 2
              THEN UploadJiraStep(c3, c3.jira_bytes[1], replies[2]) ELSE c3
        c5 == IF c4.pc = "generate" /\ Len(replies) >= 3
              THEN GenerateStep(c4, replies[3]) ELSE c4
    IN IF c5.pc = "parse" THEN ParseStep(c5) ELSE c5

\* the first n requests the call makes when run by itself: none when it
\* ends before the uploads, else its two documents and then its prompt
RequestsAlone(args, n) ==
    LET m == args.master_data_b64
        tables == load_master_data([i \in DOMAIN m |-> [k |-> m[i].k, v |-> m[i].v.data]])
        invoice == args.invoice_b64.data
        jira == args.jira_b64.data
        all == <<UploadRequest(invoice), UploadRequest(jira),
                 GenerateRequest(Prompt(tables), [file |-> invoice], [file |-> jira])>>
        reaches == LET c == DecodeStep(FrameFor(args))
                   IN c.pc = "load" /\ LoadStep(c).pc = "upload_invoice"
    IN IF reaches /\ n <= Len(all) THEN SubSeq(all, 1, n) ELSE <<>>

RequestsBy(id) ==
    LET own == SelectSeq(net, LAMBDA r : r.by = id)
    IN [i \in DOMAIN own |-> own[i].req]

SenderOrder == [i \in DOMAIN net |-> net[i].by]

\* C11: no step of a call assigns a field of the processor (api_key and
\* model stay as constructed), tables and records are held in the call's
\* own locals, and so under every interleaving of two concurrent
\* process_documents calls on one processor each call sends the requests,
\* and returns the result, that it sends and returns when run alone with
\* the same arguments and the same service replies.
C11_CallsDoNotInterfere ==
    /\ self = Processor
    /\ DOMAIN self = {"api_key", "model"}
    /\ \A id \in CallIds :
          LET t == threads[id]
              alone == Alone(t.args, t.replies)
          IN /\ Len(RequestsBy(id)) = Len(t.replies)
             /\ RequestsBy(id) = RequestsAlone(t.args, Len(t.replies))
             /\ t.pc = "done" => (alone.pc = "done" /\ t.ret = alone.ret)

\* both calls ran to a success value, on different arguments and with
\* different completions, their requests alternating at the services
C11_Witness ==
    /\ \A id \in CallIds : threads[id].pc = "done" /\ threads[id].ret # None
    /\ threads[1].args # threads[2].args
    /\ \A id \in CallIds : DOMAIN threads[id].ret[1] = SuccessFields
    /\ threads[1].ret[1].master_data_keys # threads[2].ret[1].master_data_keys
    /\ threads[1].ret[1].raw_response # threads[2].ret[1].raw_response
    /\ SenderOrder = <<1, 2, 1, 2, 2, 1>>
    /\ fs = NoFiles

=============================================================================
